---- MODULE Spec2Model ----
(***************************************************************************)
(* The chat-room backend of backend/server.py: the rooms and messages      *)
(* collections of the store, and the request handlers get_rooms,           *)
(* get_messages, send_message, add_reaction and mark_room_as_read.         *)
(*                                                                         *)
(* Every handler is a coroutine.  It runs without interruption between two *)
(* awaits, and every await of a store call is a point where the handlers   *)
(* of other requests run.  A store call (find, insert_one, update_one) is  *)
(* atomic on the one document it touches.  A handler with one store call   *)
(* is one action; send_message and add_reaction, which make two, are       *)
(* split at their awaits.  The k-th such request to arrive is run by       *)
(* handler instance k, and any number of them are in flight together.      *)
(* A store call may also raise; the one failure modelled is that of the    *)
(* room update of send_message.                                            *)
(*                                                                         *)
(* datetime.now(timezone.utc) is a clock that never goes backwards and     *)
(* whose successive readings may be equal: every reading is the last       *)
(* reading, kept in the variable now, or a later one.  Only the order of   *)
(* the readings matters to the handlers, so a later reading is the next    *)
(* integer.                                                                *)
(***************************************************************************)
EXTENDS Integers, Sequences, FiniteSets, TLC

\* ------------------------------------------------------------- bounds
MaxRequests == 2   \* send_message and add_reaction requests that arrive
MaxClock == 1      \* last reading of the clock
SeedTicks == 0     \* last reading of the clock while the mock data is built
MaxLimit == 2      \* largest limit below the default passed to get_messages

DefaultLimit == 50     \* get_messages(room_id, limit = 50)
RoomsListLength == 100 \* db.rooms.find().to_list(100)

Procs == 1..MaxRequests

\* ------------------------------------------------------------- inputs
CurrentUser == "current_user"
CurrentUserName == "You"

UnknownRoom == "room_x"
UnknownMessage == "msg_x"

\* str(uuid.uuid4()): the n-th identifier generated
Uuid(n) == "uuid" \o ToString(n)

SendRoomInputs == {"room2", UnknownRoom}
ContentInputs == {"hi", ""}
ReactMessageInputs == {"msg1", Uuid(1), UnknownMessage}
EmojiInputs == {"fire", "party"}
MarkReadInputs == {"room2", "room3", UnknownRoom}
ListRoomInputs == {"room2", UnknownRoom}
NonPositiveLimits == {0, -1}
LimitInputs == (1..MaxLimit) \cup {DefaultLimit} \cup NonPositiveLimits

VARIABLES
    rooms,      \* db.rooms: the documents in storage order
    messages,   \* db.messages: the documents in insertion order
    now,        \* the last reading of datetime.now(timezone.utc)
    uuids,      \* how many uuid4 identifiers send_message has generated
    started,    \* how many send_message and add_reaction handlers have started
    pc,         \* pc[p]: the await handler instance p is suspended at
    local,      \* local[p]: the local variables of handler instance p
    response    \* the request the last step answered and its response,
                \* NoResponse when the step answered none

vars == <<rooms, messages, now, uuids, started, pc, local, response>>

\* ------------------------------------------------------------- documents
Room(id, name, description, participants, created_at, last_activity, unread_count) ==
    [id |-> id, name |-> name, description |-> description,
     participants |-> participants, created_at |-> created_at,
     last_activity |-> last_activity, unread_count |-> unread_count]

Reaction(emoji, user_id, username) ==
    [emoji |-> emoji, user_id |-> user_id, username |-> username]

Message(id, room_id, sender_id, sender_name, content, timestamp, reactions, is_system) ==
    [id |-> id, room_id |-> room_id, sender_id |-> sender_id,
     sender_name |-> sender_name, content |-> content, timestamp |-> timestamp,
     reactions |-> reactions, is_system |-> is_system]

\* ------------------------------------------------------------- store calls
\* the positions of the documents of coll whose id is id
Matching(coll, id) == {i \in DOMAIN coll : coll[i].id = id}

Min(S) == CHOOSE x \in S : \A y \in S : x <= y

\* find_one({"id": id}): the first matching document, when there is one
Found(coll, id) == Matching(coll, id) # {}
FindOne(coll, id) == coll[Min(Matching(coll, id))]

\* the update matches no document
SetLastActivityNoMatch(coll, id, t) == coll

\* the update is applied to every room
SetLastActivityAllRooms(coll, id, t) ==
    [i \in DOMAIN coll |-> [coll[i] EXCEPT !.last_activity = t]]

\* the update also counts the message as unread
SetLastActivityAndUnread(coll, id, t) ==
    [i \in DOMAIN coll |->
        IF coll[i].id = id
        THEN [coll[i] EXCEPT !.last_activity = t,
                             !.unread_count = coll[i].unread_count + 1]
        ELSE coll[i]]

\* update_one({"id": id}, {"$set": {"last_activity": t}}): the first matching
\* document is changed; no document matching changes nothing and raises nothing
SetLastActivity(coll, id, t) ==
    [i \in DOMAIN coll |->
        IF Found(coll, id) /\ i = Min(Matching(coll, id))
        THEN [coll[i] EXCEPT !.last_activity = t] ELSE coll[i]]

\* the unread count is decremented, not set
SetUnreadCountDecrement(coll, id, n) ==
    [i \in DOMAIN coll |->
        IF coll[i].id = id
        THEN [coll[i] EXCEPT !.unread_count = coll[i].unread_count - 1] ELSE coll[i]]

\* update_one({"id": id}, {"$set": {"unread_count": 0}})
SetUnreadCount(coll, id, n) ==
    [i \in DOMAIN coll |->
        IF Found(coll, id) /\ i = Min(Matching(coll, id))
        THEN [coll[i] EXCEPT !.unread_count = n] ELSE coll[i]]

\* the filter is dropped: every message gets the reactions
SetReactionsEverywhere(coll, id, rs) ==
    [i \in DOMAIN coll |-> [coll[i] EXCEPT !.reactions = rs]]

\* update_one({"id": id}, {"$set": {"reactions": rs}})
SetReactions(coll, id, rs) ==
    [i \in DOMAIN coll |->
        IF Found(coll, id) /\ i = Min(Matching(coll, id))
        THEN [coll[i] EXCEPT !.reactions = rs] ELSE coll[i]]

\* ------------------------------------------------------------- mock data
\* init_mock_data reads the clock ten times, in this order: created_at and
\* last_activity of room1, room2, room3, then the timestamp of msg1..msg4
SeedReadings == 10
SeedClocks ==
    {f \in [1..SeedReadings -> 0..SeedTicks] :
        \A i \in 1..(SeedReadings - 1) : f[i] <= f[i + 1]}

SeedRooms(t) ==
    << Room("room1", "General Discussion", "Main team chat",
            {"user1", "user2", "user3", "current_user"}, t[1], t[2], 3),
       Room("room2", "Project Alpha", "Alpha project coordination",
            {"user1", "current_user"}, t[3], t[4], 1),
       Room("room3", "Random", "Casual conversations",
            {"user2", "user3", "current_user"}, t[5], t[6], 0) >>

\* the emoji of the two seeded reactions are written "thumbs" and "rocket"
SeedMessages(t) ==
    << Message("msg1", "room1", "user1", "Alice Johnson", "Hey everyone! How's the project coming along?", t[7],
               <<Reaction("thumbs", "user2", "Bob Smith")>>, FALSE),
       Message("msg2", "room1", "user2", "Bob Smith", "Making good progress! Just finished the backend API.", t[8],
               <<Reaction("rocket", "user1", "Alice Johnson")>>, FALSE),
       Message("msg3", "room1", "user3", "Carol Davis", "Awesome work team! Frontend is looking great too.", t[9],
               << >>, FALSE),
       Message("msg4", "room2", "user1", "Alice Johnson", "Can we schedule a review meeting for tomorrow?", t[10],
               << >>, FALSE) >>

\* ------------------------------------------------------------- handler state
NoLocal == [op |-> "none"]
NoResponse == [op |-> "none", status |-> 0]

Init ==
    /\ \E t \in SeedClocks :
          /\ rooms = SeedRooms(t)
          /\ messages = SeedMessages(t)
          /\ now = t[SeedReadings]
    /\ uuids = 0
    /\ started = 0
    /\ pc = [p \in Procs |-> "idle"]
    /\ local = [p \in Procs |-> NoLocal]
    /\ response = NoResponse

\* datetime.now(timezone.utc): the readings the clock can give next
ClockReadings == {t \in {now, now + 1} : t <= MaxClock}

\* ------------------------------------------------------------- get_rooms
\* to_list(length): the first length documents of the cursor
ToList(cursor, length) ==
    SubSeq(cursor, 1, IF Len(cursor) < length THEN Len(cursor) ELSE length)

GetRooms ==
    /\ response' = [op |-> "get_rooms", status |-> 200,
                    body |-> ToList(rooms, RoomsListLength)]
    /\ UNCHANGED <<rooms, messages, now, uuids, started, pc, local>>

\* ------------------------------------------------------------- get_messages
Reverse(s) == [i \in 1..Len(s) |-> s[Len(s) + 1 - i]]

\* find({"room_id": room_id}): the positions of the room's messages
InRoom(coll, room_id) == {i \in DOMAIN coll : coll[i].room_id = room_id}

\* sort("timestamp", -1).limit(k): the first k positions of S by descending
\* timestamp.  The sort key is the timestamp alone, and the store leaves the
\* order of documents with equal keys open: every order of them is a result.
RECURSIVE SortDescLimit(_, _, _)
SortDescLimit(coll, S, k) ==
    IF k = 0 \/ S = {} THEN {<< >>}
    ELSE LET newest == {i \in S : \A j \in S : coll[i].timestamp >= coll[j].timestamp}
         IN  UNION {{<<i>> \o rest : rest \in SortDescLimit(coll, S \ {i}, k - 1)} :
                       i \in newest}

\* the cursor's documents, not reversed
MessagesOfNotReversed(coll, found) == [i \in 1..Len(found) |-> coll[found[i]]]

\* lines 177-179: the cursor's documents, oldest first
MessagesOf(coll, found) == Reverse([i \in 1..Len(found) |-> coll[found[i]]])

\* limit(n) of the cursor: 0 sets no limit
CursorLimit(S, n) == IF n = 0 THEN Cardinality(S) ELSE n

\* line 177 with limit >= 0.  to_list(0) gives the empty list whatever the
\* cursor holds.
GetMessages(room_id, limit) ==
    /\ limit >= 0
    /\ \E found \in SortDescLimit(messages, InRoom(messages, room_id),
                                   CursorLimit(InRoom(messages, room_id), limit)) :
          response' = [op |-> "get_messages", status |-> 200,
                       room_id |-> room_id, limit |-> limit,
                       body |-> MessagesOf(messages, ToList(found, limit))]
    /\ UNCHANGED <<rooms, messages, now, uuids, started, pc, local>>

\* line 177 with limit < 0: to_list refuses a negative length with a
\* ValueError, which nothing catches, and the request is answered 500
GetMessagesFails(room_id, limit) ==
    /\ limit < 0
    /\ response' = [op |-> "get_messages", status |-> 500,
                    room_id |-> room_id, limit |-> limit,
                    body |-> "Internal Server Error"]
    /\ UNCHANGED <<rooms, messages, now, uuids, started, pc, local>>

\* ------------------------------------------------------------- send_message
\* MessageCreate: room_id and content are required strings; a body without
\* one of them is rejected before the handler runs
SendRejected ==
    /\ response' = [op |-> "send_message", status |-> 422,
                    body |-> "ValidationError"]
    /\ UNCHANGED <<rooms, messages, now, uuids, started, pc, local>>

\* lines 184-196: the message is built, with a fresh id and the clock's
\* reading, and insert_one is awaited
SendBuild(p, room_id, content, t) ==
    /\ started < MaxRequests
    /\ p = started + 1
    /\ started' = started + 1
    /\ uuids' = uuids + 1
    /\ local' = [local EXCEPT ![p] =
                    [op |-> "send_message", room_id |-> room_id,
                     message_obj |-> Message(Uuid(uuids + 1), room_id, CurrentUser,
                                             CurrentUserName, content, t,
                                             << >>, FALSE)]]
    /\ now' = t
    /\ pc' = [pc EXCEPT ![p] = "send_insert"]
    /\ response' = NoResponse
    /\ UNCHANGED <<rooms, messages>>

\* line 196: the store inserts the document
SendInsert(p) ==
    /\ pc[p] = "send_insert"
    /\ messages' = Append(messages, local[p].message_obj)
    /\ pc' = [pc EXCEPT ![p] = "send_touch"]
    /\ response' = NoResponse
    /\ UNCHANGED <<rooms, now, uuids, started, local>>

\* lines 199-202: the handler resumes, reads the clock for last_activity
\* and awaits update_one
SendTouch(p, t) ==
    /\ pc[p] = "send_touch"
    /\ local' = [local EXCEPT ![p] =
                    [op |-> "send_message", room_id |-> local[p].room_id,
                     message_obj |-> local[p].message_obj,
                     last_activity |-> t]]
    /\ now' = t
    /\ pc' = [pc EXCEPT ![p] = "send_update"]
    /\ response' = NoResponse
    /\ UNCHANGED <<rooms, messages, uuids, started>>

\* lines 199-204: the store applies the update and the handler returns the
\* message it built
SendUpdate(p) ==
    /\ pc[p] = "send_update"
    /\ rooms' = SetLastActivity(rooms, local[p].room_id, local[p].last_activity)
    /\ response' = [op |-> "send_message", status |-> 200,
                    room_id |-> local[p].room_id,
                    body |-> local[p].message_obj]
    /\ pc' = [pc EXCEPT ![p] = "done"]
    /\ local' = [local EXCEPT ![p] = NoLocal]
    /\ UNCHANGED <<messages, now, uuids, started>>

\* lines 199-204: update_one raises (the store is unreachable or errors).
\* The await is in no try block, so the exception leaves the handler and the
\* request is answered 500; the message inserted before stays stored.
SendUpdateFails(p) ==
    /\ pc[p] = "send_update"
    /\ response' = [op |-> "send_message", status |-> 500,
                    room_id |-> local[p].room_id,
                    body |-> "Internal Server Error"]
    /\ pc' = [pc EXCEPT ![p] = "failed"]
    /\ local' = [local EXCEPT ![p] = NoLocal]
    /\ UNCHANGED <<rooms, messages, now, uuids, started>>

\* ------------------------------------------------------------- add_reaction
\* the new reaction is appended and the old one is kept
ReplaceReactionKeepOld(reactions, emoji) ==
    Append(reactions, Reaction(emoji, CurrentUser, CurrentUserName))

\* the new reaction is put in front
ReplaceReactionInFront(reactions, emoji) ==
    <<Reaction(emoji, CurrentUser, CurrentUserName)>> \o
        SelectSeq(reactions, LAMBDA r : r.user_id # CurrentUser)

\* the reactions read are dropped and only the new one is kept
ReplaceReactionOnlyNew(reactions, emoji) ==
    <<Reaction(emoji, CurrentUser, CurrentUserName)>>

\* lines 213-222: the reactions of the message read, without the current
\* user's, followed by the new reaction
ReplaceReaction(reactions, emoji) ==
    Append(SelectSeq(reactions, LAMBDA r : r.user_id # CurrentUser),
           Reaction(emoji, CurrentUser, CurrentUserName))

\* the missing message is not checked for: the update matches nothing and
\* the handler reports success
ReactNotFoundUnchecked(message_id) ==
    /\ ~Found(messages, message_id)
    /\ response' = [op |-> "add_reaction", status |-> 200,
                    message_id |-> message_id, emoji |-> "fire",
                    body |-> [success |-> TRUE]]
    /\ UNCHANGED <<rooms, messages, now, uuids, started, pc, local>>

\* lines 209-211: find_one finds no message
ReactNotFound(message_id) ==
    /\ ~Found(messages, message_id)
    /\ response' = [op |-> "add_reaction", status |-> 404,
                    message_id |-> message_id, body |-> "Message not found"]
    /\ UNCHANGED <<rooms, messages, now, uuids, started, pc, local>>

\* lines 209-225: find_one reads the message, the new reactions are computed
\* from what was read, and update_one is awaited
ReactRead(p, message_id, emoji) ==
    /\ started < MaxRequests
    /\ p = started + 1
    /\ started' = started + 1
    /\ Found(messages, message_id)
    /\ local' = [local EXCEPT ![p] =
                    [op |-> "add_reaction", message_id |-> message_id,
                     emoji |-> emoji,
                     existing_reactions |->
                        ReplaceReaction(FindOne(messages, message_id).reactions, emoji)]]
    /\ pc' = [pc EXCEPT ![p] = "react_write"]
    /\ response' = NoResponse
    /\ UNCHANGED <<rooms, messages, now, uuids>>

\* lines 225-230: the store replaces the reactions of the message
ReactWrite(p) ==
    /\ pc[p] = "react_write"
    /\ messages' = SetReactions(messages, local[p].message_id,
                                local[p].existing_reactions)
    /\ response' = [op |-> "add_reaction", status |-> 200,
                    message_id |-> local[p].message_id,
                    emoji |-> local[p].emoji, body |-> [success |-> TRUE]]
    /\ pc' = [pc EXCEPT ![p] = "done"]
    /\ local' = [local EXCEPT ![p] = NoLocal]
    /\ UNCHANGED <<rooms, now, uuids, started>>

\* ------------------------------------------------------------- mark_room_as_read
MarkRoomAsRead(room_id) ==
    /\ rooms' = SetUnreadCount(rooms, room_id, 0)
    /\ response' = [op |-> "mark_room_as_read", status |-> 200,
                    room_id |-> room_id, body |-> [success |-> TRUE]]
    /\ UNCHANGED <<messages, now, uuids, started, pc, local>>

\* ------------------------------------------------------------- the system
Next ==
    \/ GetRooms
    \/ \E room_id \in ListRoomInputs, limit \in LimitInputs : GetMessages(room_id, limit)
    \/ \E room_id \in ListRoomInputs, limit \in LimitInputs :
          GetMessagesFails(room_id, limit)
    \/ SendRejected
    \/ \E p \in Procs, room_id \in SendRoomInputs, content \in ContentInputs,
          t \in ClockReadings : SendBuild(p, room_id, content, t)
    \/ \E p \in Procs : SendInsert(p)
    \/ \E p \in Procs, t \in ClockReadings : SendTouch(p, t)
    \/ \E p \in Procs : SendUpdate(p)
    \/ \E p \in Procs : SendUpdateFails(p)
    \/ \E message_id \in ReactMessageInputs : ReactNotFound(message_id)
    \/ \E p \in Procs, message_id \in ReactMessageInputs, emoji \in EmojiInputs :
          ReactRead(p, message_id, emoji)
    \/ \E p \in Procs : ReactWrite(p)
    \/ \E room_id \in MarkReadInputs : MarkRoomAsRead(room_id)

Spec == Init /\ [][Next]_vars

\* ============================================================= claims
SendInFlight(p) == pc[p] \in {"send_insert", "send_touch", "send_update"}
ReactionsBy(m, user_id) == {k \in DOMAIN m.reactions : m.reactions[k].user_id = user_id}
Reacted == response.op = "add_reaction" /\ response.status = 200
Sent == response.op = "send_message" /\ response.status = 200
Listed == response.op = "get_messages" /\ response.status = 200
MarkedRead == response.op = "mark_room_as_read" /\ response.status = 200

\* C1: in every reachable state, whatever the interleaving of the reads and
\* the writes of the add_reaction handlers in flight, the reactions of every
\* stored message hold at most one entry per user_id.
C1_OneReactionPerUser ==
    \A i \in DOMAIN messages :
        \A j, k \in DOMAIN messages[i].reactions :
            messages[i].reactions[j].user_id = messages[i].reactions[k].user_id => j = k

\* one add_reaction has written its reaction on a message that holds another
\* user's reaction, while a second one, with another emoji, waits to write
C1_Witness ==
    /\ Reacted
    /\ Cardinality(ReactionsBy(FindOne(messages, response.message_id), CurrentUser)) = 1
    /\ Len(FindOne(messages, response.message_id).reactions) = 2
    /\ \E q \in Procs :
          /\ pc[q] = "react_write"
          /\ local[q].message_id = response.message_id
          /\ local[q].emoji # response.emoji

\* C2: when an add_reaction of the current user on a stored message
\* completes, it reports success and the message holds exactly one reaction
\* of that user, with the emoji of this call, as the last element; and in
\* every state a reaction of the current user is the only one of that user
\* and the last element of the sequence.
C2_ReplaceAtEnd ==
    /\ response.op = "add_reaction" /\ Found(messages, response.message_id)
          => /\ response.status = 200
             /\ LET m == FindOne(messages, response.message_id)
                IN  /\ Cardinality(ReactionsBy(m, CurrentUser)) = 1
                    /\ m.reactions[Len(m.reactions)] =
                          Reaction(response.emoji, CurrentUser, CurrentUserName)
    /\ \A i \in DOMAIN messages :
          LET m == messages[i]
          IN  ReactionsBy(m, CurrentUser) # {}
                 => ReactionsBy(m, CurrentUser) = {Len(m.reactions)}

\* both requests were add_reaction on msg1, the second has just completed
\* and msg1 holds the seeded reaction followed by the current user's
C2_Witness ==
    /\ Reacted
    /\ response.message_id = "msg1"
    /\ started = 2 /\ uuids = 0
    /\ \A p \in Procs : pc[p] = "done"
    /\ FindOne(messages, "msg1").reactions =
          <<Reaction("thumbs", "user2", "Bob Smith"),
            Reaction("party", CurrentUser, CurrentUserName)>>

\* C4: a step that answers an add_reaction whose message_id matches no
\* stored message answers 404 and leaves rooms and messages as they were,
\* and no handler goes on to the update with such a message_id.
C4_UnknownMessage ==
    [][ /\ (response'.op = "add_reaction" /\ ~Found(messages, response'.message_id))
            => (response'.status = 404 /\ rooms' = rooms /\ messages' = messages)
        /\ \A p \in Procs :
              (pc'[p] = "react_write" /\ pc[p] # "react_write")
                  => Found(messages, local'[p].message_id)
      ]_vars

\* an add_reaction was answered 404 after a message was sent and reacted to
C4_Witness ==
    /\ response.op = "add_reaction"
    /\ response.status = 404
    /\ Len(messages) = 5
    /\ \E i \in DOMAIN messages : ReactionsBy(messages[i], CurrentUser) # {}

\* C5: get_messages(R, limit) with a positive limit returns min(limit, number
\* of messages of R) messages, all stored messages of R and no message
\* twice, in non-decreasing timestamp order, and no message of R left out
\* has a greater timestamp than a returned one.
C5_LastNChronological ==
    Listed =>
        LET body == response.body
            inRoom == InRoom(messages, response.room_id)
            returned == {i \in inRoom : \E k \in DOMAIN body : body[k] = messages[i]}
        IN  /\ Len(body) <= response.limit
            /\ Len(body) = IF Cardinality(inRoom) < response.limit
                           THEN Cardinality(inRoom) ELSE response.limit
            /\ \A k \in DOMAIN body : body[k].room_id = response.room_id
            /\ Cardinality(returned) = Len(body)
            /\ \A j, k \in DOMAIN body : j < k => body[j].timestamp <= body[k].timestamp
            /\ \A i \in inRoom \ returned, k \in DOMAIN body :
                  messages[i].timestamp <= body[k].timestamp

\* the limit cut the room's messages: two of three were returned, with
\* different timestamps, and the one left out is older than the newest
C5_Witness ==
    /\ Listed
    /\ response.limit = 2
    /\ Cardinality(InRoom(messages, response.room_id)) = 3
    /\ Len(response.body) = 2
    /\ response.body[1].timestamp < response.body[2].timestamp

C7_LastActivityAtLeastTimestamp ==
    (Sent /\ Found(rooms, response.room_id))
        => FindOne(rooms, response.room_id).last_activity >= response.body.timestamp

\* the only request so far, a send_message into room2 with a clock reading
\* later than the seeded ones, has completed
C7_Witness ==
    /\ Sent
    /\ response.room_id = "room2"
    /\ started = 1
    /\ response.body.timestamp = 1
    /\ FindOne(rooms, "room2").last_activity = 1

\* C8: a mark_room_as_read of an existing room answers success, leaves the
\* room's unread_count at 0 and changes no other field of it, no other room
\* and no message; on a room whose unread_count is 0 it changes nothing.
C8_MarkReadIdempotent ==
    [][ (response'.op = "mark_room_as_read" /\ Found(rooms, response'.room_id))
        => /\ response'.status = 200
           /\ FindOne(rooms', response'.room_id).unread_count = 0
           /\ DOMAIN rooms' = DOMAIN rooms
           /\ \A i \in DOMAIN rooms :
                 [rooms'[i] EXCEPT !.unread_count = rooms[i].unread_count] = rooms[i]
           /\ \A i \in DOMAIN rooms :
                 rooms[i].id # response'.room_id => rooms'[i] = rooms[i]
           /\ FindOne(rooms, response'.room_id).unread_count = 0 => rooms' = rooms
           /\ messages' = messages
      ]_vars

\* room2, seeded with one unread message, has been marked read
C8_Witness ==
    /\ MarkedRead
    /\ response.room_id = "room2"
    /\ FindOne(rooms, "room2").unread_count = 0
    /\ FindOne(rooms, "room2").last_activity = 1

\* C9: a send_message whose room_id matches no stored room is answered 404,
\* and the room_id of every stored message is the id of a stored room.
C9_UnknownRoomRejected ==
    /\ \A i \in DOMAIN messages : Found(rooms, messages[i].room_id)
    /\ (response.op = "send_message" /\ response.status # 422
            /\ ~Found(rooms, response.room_id)) => response.status = 404

\* C10: a send_message with empty content is answered 422 and stores no
\* message, so the content of every stored message is non-empty.
C10_EmptyContentRejected ==
    /\ \A i \in DOMAIN messages : messages[i].content # ""
    /\ (response.op = "send_message" /\ response.status \notin {422, 500})
          => response.body.content # ""

\* C11: a mark_room_as_read whose room_id matches no stored room is answered
\* 404, not success, and leaves rooms and messages as they were.
C11_MarkReadUnknownRoom ==
    [][ (response'.op = "mark_room_as_read" /\ ~Found(rooms, response'.room_id))
        => (response'.status = 404 /\ rooms' = rooms /\ messages' = messages)
      ]_vars

\* C12: when the step that ends a send_message whose insert succeeded is the
\* failure of its room update, the request is still answered 200 with the
\* message it built, and that message is stored.
C12_SendSurvivesFailedTouch ==
    [][ \A p \in Procs :
          (pc[p] = "send_update" /\ pc'[p] = "failed")
             => /\ response'.op = "send_message"
                /\ response'.status = 200
                /\ response'.body = local[p].message_obj
                /\ Found(messages', local[p].message_obj.id)
      ]_vars

\* C13: a get_messages(R, limit) with a limit of zero or less is answered as
\* one with the default limit is: 200 with the last DefaultLimit messages of R.
C13_NonPositiveLimitIsDefault ==
    (response.op = "get_messages" /\ response.limit <= 0)
        => /\ response.status = 200
           /\ \E found \in SortDescLimit(messages, InRoom(messages, response.room_id),
                                         DefaultLimit) :
                 response.body = MessagesOf(messages, ToList(found, DefaultLimit))


Max(S) == CHOOSE x \in S : \A y \in S : x >= y

\* C14: when a send_message into a stored room R has just completed, no
\* send_message into R is in flight and none has failed, the last_activity of
\* R equals the timestamp of the message of R inserted last.
C14_LastActivityIsLastTimestamp ==
    ( /\ Sent
      /\ Found(rooms, response.room_id)
      /\ \A p \in Procs : pc[p] # "failed"
      /\ \A p \in Procs : ~(SendInFlight(p) /\ local[p].room_id = response.room_id) )
    => FindOne(rooms, response.room_id).last_activity =
          messages[Max(InRoom(messages, response.room_id))].timestamp

\* C15: once every send_message that started has completed, the
\* last_activity of each stored room is at least the timestamp of every
\* message the send_message handlers stored in it.
C15_LastActivityCoversAllSent ==
    (\A p \in Procs : pc[p] \in {"idle", "done"})
    => \A i \in DOMAIN messages :
          (messages[i].sender_id = CurrentUser /\ Found(rooms, messages[i].room_id))
             => FindOne(rooms, messages[i].room_id).last_activity >= messages[i].timestamp

\* C16: the messages of equal timestamp that get_messages returns are in
\* insertion order, and a message of R left out with the timestamp of a
\* returned one was inserted before it.
C16_TiesInInsertionOrder ==
    Listed =>
        LET body == response.body
            inRoom == InRoom(messages, response.room_id)
            pos(k) == CHOOSE i \in inRoom : messages[i] = body[k]
            returned == {pos(k) : k \in DOMAIN body}
        IN  /\ \A j, k \in DOMAIN body :
                  (j < k /\ body[j].timestamp = body[k].timestamp) => pos(j) < pos(k)
            /\ \A i \in inRoom \ returned, k \in DOMAIN body :
                  messages[i].timestamp = body[k].timestamp => i < pos(k)


\* C17: no step removes a stored message or changes its id, room_id,
\* sender_id, sender_name, content, timestamp or is_system; a step that
\* changes its reactions is the write of an add_reaction on its id.
C17_MessagesImmutable ==
    [][ /\ Len(messages') >= Len(messages)
        /\ \A i \in DOMAIN messages :
              /\ [messages'[i] EXCEPT !.reactions = messages[i].reactions] = messages[i]
              /\ messages'[i].reactions # messages[i].reactions
                    => /\ response'.op = "add_reaction"
                       /\ response'.status = 200
                       /\ response'.message_id = messages[i].id
      ]_vars

\* a message stored by send_message has received a reaction
C17_Witness ==
    /\ Reacted
    /\ response.message_id = Uuid(1)
    /\ Len(messages) = 5
    /\ messages[5].id = Uuid(1)
    /\ messages[5].sender_id = CurrentUser
    /\ messages[5].reactions = <<Reaction(response.emoji, CurrentUser, CurrentUserName)>>

\* C18: each write touches one entity.  The write of an add_reaction on M
\* leaves the rooms, the number of messages and every message but M as they
\* were; a mark_room_as_read of R leaves the messages, every room but R and
\* every field of R but unread_count as they were; the insert of a
\* send_message adds its message and nothing else, and its room update
\* leaves the messages, every room but R and every field of R but
\* last_activity as they were; the reads and the rejected requests change
\* nothing.
C18_OneEntityPerWrite ==
    [][ /\ response'.op = "add_reaction"
              => /\ rooms' = rooms
                 /\ Len(messages') = Len(messages)
                 /\ \A i \in DOMAIN messages :
                       messages[i].id # response'.message_id => messages'[i] = messages[i]
        /\ response'.op = "mark_room_as_read"
              => /\ messages' = messages
                 /\ DOMAIN rooms' = DOMAIN rooms
                 /\ \A i \in DOMAIN rooms :
                       /\ rooms[i].id # response'.room_id => rooms'[i] = rooms[i]
                       /\ [rooms'[i] EXCEPT !.unread_count = rooms[i].unread_count] = rooms[i]
        /\ \A p \in Procs :
              /\ (pc[p] = "send_insert" /\ pc'[p] = "send_touch")
                    => /\ rooms' = rooms
                       /\ messages' = Append(messages, local[p].message_obj)
              /\ (pc[p] = "send_update" /\ pc'[p] = "done")
                    => /\ messages' = messages
                       /\ DOMAIN rooms' = DOMAIN rooms
                       /\ \A i \in DOMAIN rooms :
                             /\ rooms[i].id # local[p].room_id => rooms'[i] = rooms[i]
                             /\ [rooms'[i] EXCEPT !.last_activity = rooms[i].last_activity]
                                   = rooms[i]
        /\ ( /\ response'.op \notin {"add_reaction", "mark_room_as_read"}
             /\ \A p \in Procs : ~(pc[p] = "send_insert" /\ pc'[p] = "send_touch")
             /\ \A p \in Procs : ~(pc[p] = "send_update" /\ pc'[p] = "done") )
              => (rooms' = rooms /\ messages' = messages)
      ]_vars

\* a send_message into room2 has completed: room2 alone has a new
\* last_activity and the one message added is the message sent
C18_Witness ==
    /\ Sent
    /\ response.room_id = "room2"
    /\ Len(messages) = 5
    /\ messages[5] = response.body
    /\ FindOne(rooms, "room2").last_activity = 1
    /\ FindOne(rooms, "room1").last_activity = 0
    /\ FindOne(rooms, "room3").last_activity = 0

\* C19: no step of a send_message changes an unread_count; a step that
\* changes the unread_count of a room is a mark_room_as_read of that room
\* and leaves it at 0; no unread_count becomes negative or increases.
C19_UnreadOnlyReset ==
    [][ /\ DOMAIN rooms' = DOMAIN rooms
        /\ \A i \in DOMAIN rooms :
              /\ rooms'[i].unread_count >= 0
              /\ rooms'[i].unread_count <= rooms[i].unread_count
              /\ rooms'[i].unread_count # rooms[i].unread_count
                    => /\ response'.op = "mark_room_as_read"
                       /\ response'.room_id = rooms[i].id
                       /\ rooms'[i].unread_count = 0
        /\ (\E p \in Procs : SendInFlight(p) /\ pc'[p] # pc[p])
              => \A i \in DOMAIN rooms : rooms'[i].unread_count = rooms[i].unread_count
      ]_vars

\* two send_message into room2 have completed and every room has the
\* unread_count it was seeded with
C19_Witness ==
    /\ Sent
    /\ response.room_id = "room2"
    /\ Cardinality(InRoom(messages, "room2")) = 3
    /\ \A p \in Procs : pc[p] = "done"
    /\ FindOne(rooms, "room1").unread_count = 3
    /\ FindOne(rooms, "room2").unread_count = 1
    /\ FindOne(rooms, "room3").unread_count = 0

\* C20: no step takes from a stored message the reaction of a user: a
\* message that holds a reaction by a user holds one by that user after
\* every step, whatever the interleaving of the add_reaction handlers.
C20_NoUnreact ==
    [][ \A i \in DOMAIN messages :
          /\ i \in DOMAIN messages'
          /\ \A j \in DOMAIN messages[i].reactions :
                ReactionsBy(messages'[i], messages[i].reactions[j].user_id) # {}
      ]_vars

\* two add_reaction on msg1, the second having read msg1 before the first
\* wrote, have both written: msg1 still holds the seeded reaction of user2
\* and holds one of the current user
C20_Witness ==
    /\ Reacted
    /\ response.message_id = "msg1"
    /\ response.emoji = "fire"
    /\ started = 2
    /\ ReactionsBy(FindOne(messages, "msg1"), "user2") = {1}
    /\ ReactionsBy(FindOne(messages, "msg1"), CurrentUser) = {2}
    /\ \A p \in Procs : pc[p] = "done"

====
